---- MODULE Spec2Model ----
(***************************************************************************)
(* The crawl pipeline of silverScraper's page script: fetchData (the wave  *)
(* loop), fetchPage (one page with retries) and the localStorage batches.  *)
(* One action is one turn of the JavaScript event loop: the code that runs *)
(* between two awaits.                                                     *)
(***************************************************************************)
EXTENDS Integers, Sequences, FiniteSets, TLC

\* ---------------------------------------------------------------- constants
Retries == 4
DefaultParallelLimit == 3
PaginationThreshold == 2

\* ------------------------------------------------------------------- bounds
MaxLastPage == 3      \* the dataset's true last page N is drawn from 1..MaxLastPage
MaxPage     == 5      \* no page above MaxPage is dispatched
MaxFails    == 6      \* failed fetch attempts explored in one run
MaxTermLen  == 2      \* characters typed into the search field: 0..MaxTermLen
MaxItems    == 3      \* page-link items in a pagination control: 0..MaxItems

RunIds == {1, 2}      \* 1: the onload run; 2: a run started by the Refetch button

VARIABLES
    lastPage,         \* the dataset: number of the true last page
    localStorage,     \* batch index -> stored batch (key doctorDataBatch-<index>)
    pc,               \* per run: "idle", "launchDelay", "join", "done"
    parallelLimit,    \* per run: argument of fetchData
    currentPage,      \* per run
    isLastPage,       \* per run
    batchIndex,       \* per run
    i,                \* per run: index of the launch loop
    fetchPromises,    \* per run: the wave's fetchPage calls, in launch order
    doneOrder,        \* per run: pages of the wave in the order their fetchPage settled
    lastInverted,     \* per run: in the wave stored last a page with records settled
                      \*          before a lower page with records
    failCount,        \* per run: failed attempts so far
    lost,             \* per run: pages whose retries were exhausted
    observedEnd,      \* per run: some fetch read a document that signals end-of-data
    written,          \* per run: batch indices the run has stored
    waves,            \* per run: number of wave batches the run has stored
    beyondNoSignal,   \* per run: a document beyond the last page showed no end-of-data
    dispatched,       \* per run: page numbers passed to fetchPage by the launch loop
    committed,        \* per run: batch index -> the batch the run stored there last
    storageErrors,    \* per run: setItem calls that threw
    lastItems,        \* per run: page-link items of the document parsed last (-1: none)
    fetchedData,      \* the script's row collection read by exportToXLSX
    searchField,      \* value of the search-field input
    searched,         \* the search field's value read by the search run last
    enumerated,       \* Object.keys order used by the search run last
    filteredData,     \* filteredData of the search run last
    xlsxFile          \* doctors_data.xlsx: whether written, and its rows

pageVars == <<fetchedData, searchField, searched, enumerated, filteredData, xlsxFile>>

\* What the crawl runs and their documents consist of.
runVars == <<lastPage, pc, parallelLimit, currentPage, isLastPage, batchIndex, i,
             fetchPromises, doneOrder, lastInverted, failCount, lost, observedEnd,
             written, waves, beyondNoSignal, dispatched, committed, lastItems,
             storageErrors>>

vars == <<lastPage, localStorage, pc, parallelLimit, currentPage, isLastPage,
          batchIndex, i, fetchPromises, doneOrder, lastInverted, failCount, lost,
          observedEnd, written, waves, beyondNoSignal, dispatched, committed,
          lastItems, storageErrors, pageVars>>

\* ------------------------------------------------------------ the documents
\* Records of page p: real pages carry records, pages beyond the last none.
RecCount(p) == 1 + (p % 2)

Records(p) ==
    IF p > lastPage THEN <<>> ELSE [j \in 1..RecCount(p) |-> <<p, j>>]

\* Page-link items the document of page p may show.
PaginationItems(p) ==
    IF p < lastPage THEN (PaginationThreshold + 1)..MaxItems
    ELSE IF p = lastPage THEN 0..PaginationThreshold
    ELSE 0..MaxItems

\* ------------------------------------------------------------ pure helpers
\* paginationItems.length < 2
IsLastPageOfStrict(items) == items < PaginationThreshold

IsLastPageOf(items) == items <= PaginationThreshold

\* Off by one: the catch block retries once more.
RetryAllowedOffByOne(retryCount) == retryCount >= 0

RetryAllowed(retryCount) == retryCount > 0

\* The launch loop without the flag in its condition.
LaunchMoreIgnoringFlag(idx, limit, flag) == idx < limit

\* i <= parallelLimit in the launch loop's condition.
LaunchMoreOneExtra(idx, limit, flag) == idx <= limit /\ ~flag

LaunchMore(idx, limit, flag) == idx < limit /\ ~flag

LoopContinues(flag) == ~flag

\* The batch index is not incremented.
NextBatchIndexStuck(b) == b

NextBatchIndex(b) == b + 1

RECURSIVE Flatten(_)
Flatten(seqs) ==
    IF seqs = <<>> THEN <<>> ELSE Head(seqs) \o Flatten(Tail(seqs))

\* Each fetchPage pushes its records when it settles.
BatchDataByCompletion(promises, order) ==
    Flatten([n \in 1..Len(order) |->
               LET k == CHOOSE k \in 1..Len(promises) : promises[k].page = order[n]
               IN  promises[k].result])

\* results.forEach(pageData => batchData.push(...pageData)) over Promise.all's
\* array, which is in the order of fetchPromises.
BatchData(promises, order) ==
    Flatten([k \in 1..Len(promises) |-> promises[k].result])

\* fetchPage(++currentPage): the page after the counter's value is requested.
NewPromiseSkip(p) ==
    [page |-> p + 1, status |-> "fetching", retryCount |-> Retries,
     attempts |-> 1, fails |-> 0, result |-> <<>>, failed |-> FALSE]

NewPromise(p) ==
    [page |-> p, status |-> "fetching", retryCount |-> Retries,
     attempts |-> 1, fails |-> 0, result |-> <<>>, failed |-> FALSE]

\* Promise.race in place of Promise.all.
AllSettledAny(promises) ==
    \E k \in 1..Len(promises) : promises[k].status = "resolved"

\* Some page with records settled before a lower page with records.
Inverted(promises, order) ==
    \E n, m \in 1..Len(order) :
        /\ n < m
        /\ order[n] > order[m]
        /\ \A k \in 1..Len(promises) :
              promises[k].page \in {order[n], order[m]} => promises[k].result # <<>>

AllSettled(promises) ==
    \A k \in 1..Len(promises) : promises[k].status = "resolved"

\* The value is appended to what the key holds.
SetItemAppend(store, key, value) ==
    [k \in (DOMAIN store) \cup {key} |->
        IF k = key
        THEN (IF k \in DOMAIN store THEN store[k] ELSE <<>>) \o value
        ELSE store[k]]

\* localStorage.setItem(key, value): the value under the key is replaced.
SetItem(store, key, value) ==
    [k \in (DOMAIN store) \cup {key} |-> IF k = key THEN value ELSE store[k]]

\* ------------------------------------------------------- rows and search
\* A string is a sequence of one-character strings.  A stored row has six
\* fields; a field the extraction did not find is null.
Null == <<"null">>

RowA == << <<"A", "b">>, <<"b">>, Null, <<>>, <<"a">>, <<"B", " ", "a">> >>
RowB == << <<"b">>, <<"a">>, <<"a">>, <<"b">>, <<"B">>, <<"A">> >>
RowC == << <<"a", "a">>, <<"a">>, <<"A">>, Null, <<"a">>, <<"a">> >>

\* The six fields of the record j of page p (JSON.parse of what was stored).
Fields(rec) ==
    CASE (rec[1] + rec[2]) % 3 = 0 -> RowA
      [] (rec[1] + rec[2]) % 3 = 1 -> RowB
      [] OTHER -> RowC

LowerChar(c) ==
    CASE c = "A" -> "a"
      [] c = "B" -> "b"
      [] OTHER -> c

\* String.prototype.toLowerCase
ToLowerCase(str) == [n \in 1..Len(str) |-> LowerChar(str[n])]

\* Array.prototype.join(sep): a null element contributes the empty string.
RECURSIVE JoinWith(_, _)
JoinWith(row, sep) ==
    IF row = <<>> THEN <<>>
    ELSE IF Len(row) = 1 THEN (IF row[1] = Null THEN <<>> ELSE row[1])
    ELSE (IF row[1] = Null THEN <<>> ELSE row[1]) \o sep \o JoinWith(Tail(row), sep)

\* String.prototype.includes
Includes(str, sub) ==
    \E a \in 0..(Len(str) - Len(sub)) : SubSeq(str, a + 1, a + Len(sub)) = sub

\* row.join(" ").includes(searchTerm): the row's case is kept.
RowMatchesCaseSensitive(row, searchTerm) ==
    Includes(JoinWith(row, <<" ">>), searchTerm)

\* row.join(" ").toLowerCase().includes(searchTerm)
RowMatches(row, searchTerm) ==
    Includes(ToLowerCase(JoinWith(row, <<" ">>)), searchTerm)

\* key.startsWith("doctorDataBatch"): batch keys are the indices 0, 1, ...;
\* a negative key stands for an item of another name in the same store.
IsBatchKey(key) == key >= 0

\* batchData.forEach(row => { if (...) filteredData.push(row) })
RECURSIVE PushMatching(_, _, _)
PushMatching(acc, batchData, searchTerm) ==
    IF batchData = <<>> THEN acc
    ELSE PushMatching(IF RowMatches(Fields(Head(batchData)), searchTerm)
                      THEN Append(acc, Head(batchData)) ELSE acc,
                      Tail(batchData), searchTerm)

\* Object.keys(localStorage).filter(...).forEach(key => ...)
RECURSIVE ForEachKey(_, _, _, _)
ForEachKey(acc, keys, store, searchTerm) ==
    IF keys = <<>> THEN acc
    ELSE ForEachKey(IF IsBatchKey(Head(keys))
                    THEN PushMatching(acc, store[Head(keys)], searchTerm)
                    ELSE acc,
                    Tail(keys), store, searchTerm)

\* The orders in which Object.keys can enumerate the store's keys.
KeyOrders(store) ==
    {o \in [1..Cardinality(DOMAIN store) -> DOMAIN store] :
        \A a, b \in DOMAIN o : a # b => o[a] # o[b]}

\* Ascending and descending enumeration.
SortedKeyOrders(store) ==
    {o \in KeyOrders(store) :
        \/ \A a, b \in DOMAIN o : a < b => o[a] < o[b]
        \/ \A a, b \in DOMAIN o : a < b => o[a] > o[b]}

\* The strings over the keyboard's characters of length at most n.
Keys == {"a", "B", " "}
Terms(n) == UNION {[1..m -> Keys] : m \in 0..n}

\* XLSX.utils.aoa_to_sheet(localStorage batches): the exporter reads the store.
ExportRowsFromStore(rows, store) ==
    Flatten([n \in 1..Cardinality(DOMAIN store) |->
                store[CHOOSE k \in DOMAIN store :
                         Cardinality({l \in DOMAIN store : l < k}) = n - 1]])

\* XLSX.utils.aoa_to_sheet(fetchedData): one sheet row per element.
ExportRows(rows, store) == rows

\* localStorage outlives the page: batches of an earlier session may be there
\* when the page loads.  Their records are tagged with page 0.
StaleStore == (0 :> <<<<0, 1>>, <<0, 2>>>>) @@ (4 :> <<<<0, 3>>>>)

\* -------------------------------------------------------------------- Init
\* No run has started and nothing has been searched or exported.
PageLoaded ==
    /\ lastPage \in 1..MaxLastPage
    /\ pc = [r \in RunIds |-> "idle"]
    /\ parallelLimit = [r \in RunIds |-> DefaultParallelLimit]
    /\ currentPage = [r \in RunIds |-> 1]
    /\ isLastPage = [r \in RunIds |-> FALSE]
    /\ batchIndex = [r \in RunIds |-> 0]
    /\ i = [r \in RunIds |-> 0]
    /\ fetchPromises = [r \in RunIds |-> <<>>]
    /\ doneOrder = [r \in RunIds |-> <<>>]
    /\ lastInverted = [r \in RunIds |-> FALSE]
    /\ failCount = [r \in RunIds |-> 0]
    /\ lost = [r \in RunIds |-> {}]
    /\ observedEnd = [r \in RunIds |-> FALSE]
    /\ written = [r \in RunIds |-> {}]
    /\ waves = [r \in RunIds |-> 0]
    /\ beyondNoSignal = [r \in RunIds |-> FALSE]
    /\ dispatched = [r \in RunIds |-> <<>>]
    /\ committed = [r \in RunIds |-> <<>>]
    /\ lastItems = [r \in RunIds |-> -1]
    /\ storageErrors = [r \in RunIds |-> 0]
    /\ fetchedData = <<>>
    /\ searchField = <<>>
    /\ searched = <<>>
    /\ enumerated = <<>>
    /\ filteredData = <<>>
    /\ xlsxFile = [written |-> FALSE, rows |-> <<>>]

Init ==
    /\ PageLoaded
    /\ localStorage \in {<<>>, StaleStore}

\* ----------------------------------------------------------------- actions
\* The while check and what follows it in the same turn: leave the loop, or
\* start a wave and launch its first page (i = 0).
EnterLoop(r, limit, page, flag) ==
    IF LoopContinues(flag)
    THEN IF LaunchMore(0, limit, flag)
         THEN /\ page <= MaxPage
              /\ fetchPromises' = [fetchPromises EXCEPT ![r] = <<NewPromise(page)>>]
              /\ dispatched' = [dispatched EXCEPT
                                  ![r] = Append(@, NewPromise(page).page)]
              /\ currentPage' = [currentPage EXCEPT ![r] = page + 1]
              /\ pc' = [pc EXCEPT ![r] = "launchDelay"]
         ELSE /\ fetchPromises' = [fetchPromises EXCEPT ![r] = <<>>]
              /\ currentPage' = [currentPage EXCEPT ![r] = page]
              /\ pc' = [pc EXCEPT ![r] = "join"]
              /\ UNCHANGED dispatched
    ELSE /\ fetchPromises' = [fetchPromises EXCEPT ![r] = <<>>]
         /\ currentPage' = [currentPage EXCEPT ![r] = page]
         /\ pc' = [pc EXCEPT ![r] = "done"]
         /\ UNCHANGED dispatched

\* fetchData(limit) is called: the run's variables are set and the first wave
\* starts.
FetchData(r, limit) ==
    /\ pc[r] = "idle"
    /\ parallelLimit' = [parallelLimit EXCEPT ![r] = limit]
    /\ isLastPage' = [isLastPage EXCEPT ![r] = FALSE]
    /\ batchIndex' = [batchIndex EXCEPT ![r] = 0]
    /\ i' = [i EXCEPT ![r] = 0]
    /\ EnterLoop(r, limit, 1, FALSE)
    /\ doneOrder' = [doneOrder EXCEPT ![r] = <<>>]
    /\ UNCHANGED <<lastPage, localStorage, lastInverted, failCount, lost,
                   observedEnd, written, waves, beyondNoSignal, committed,
                   lastItems, storageErrors, pageVars>>

\* <body onload="fetchData()">
OnLoad == \E limit \in 1..DefaultParallelLimit : FetchData(1, limit)

\* The 2 s pacing timer of the launch loop fires: i++, the loop condition, and
\* either the next launch or the await of Promise.all.
DelayFire(r) ==
    /\ pc[r] = "launchDelay"
    /\ i' = [i EXCEPT ![r] = i[r] + 1]
    /\ IF LaunchMore(i[r] + 1, parallelLimit[r], isLastPage[r])
       THEN /\ currentPage[r] <= MaxPage
            /\ fetchPromises' = [fetchPromises EXCEPT
                                   ![r] = Append(@, NewPromise(currentPage[r]))]
            /\ dispatched' = [dispatched EXCEPT
                                ![r] = Append(@, NewPromise(currentPage[r]).page)]
            /\ currentPage' = [currentPage EXCEPT ![r] = currentPage[r] + 1]
            /\ pc' = pc
       ELSE /\ pc' = [pc EXCEPT ![r] = "join"]
            /\ UNCHANGED <<fetchPromises, currentPage, dispatched>>
    /\ UNCHANGED <<lastPage, localStorage, parallelLimit, isLastPage, batchIndex,
                   doneOrder, lastInverted, failCount, lost, observedEnd, written,
                   waves, beyondNoSignal, committed, lastItems, storageErrors, pageVars>>

\* A fetch answers with an ok response and the document is parsed: the page's
\* records are returned and isLastPage is assigned from the pagination count.
\* isLastPage declared outside fetchData: one flag for all runs.
ParseDocumentSharedFlag(r, k, items) ==
    /\ k \in 1..Len(fetchPromises[r])
    /\ fetchPromises[r][k].status = "fetching"
    /\ items \in PaginationItems(fetchPromises[r][k].page)
    /\ fetchPromises' = [fetchPromises EXCEPT
                           ![r][k].status = "resolved",
                           ![r][k].result = Records(fetchPromises[r][k].page)]
    /\ isLastPage' = [q \in RunIds |-> IsLastPageOf(items)]
    /\ observedEnd' = [observedEnd EXCEPT ![r] = @ \/ IsLastPageOf(items)]
    /\ doneOrder' = [doneOrder EXCEPT ![r] = Append(@, fetchPromises[r][k].page)]
    /\ beyondNoSignal' = [beyondNoSignal EXCEPT
                            ![r] = @ \/ (fetchPromises[r][k].page > lastPage
                                         /\ ~IsLastPageOf(items))]
    /\ UNCHANGED <<lastPage, localStorage, pc, parallelLimit, currentPage,
                   batchIndex, i, lastInverted, failCount, lost, written, waves,
                   dispatched, committed, storageErrors, pageVars>>

ParseDocument(r, k, items) ==
    /\ k \in 1..Len(fetchPromises[r])
    /\ fetchPromises[r][k].status = "fetching"
    /\ items \in PaginationItems(fetchPromises[r][k].page)
    /\ fetchPromises' = [fetchPromises EXCEPT
                           ![r][k].status = "resolved",
                           ![r][k].result = Records(fetchPromises[r][k].page)]
    /\ isLastPage' = [isLastPage EXCEPT ![r] = IsLastPageOf(items)]
    /\ observedEnd' = [observedEnd EXCEPT ![r] = @ \/ IsLastPageOf(items)]
    /\ doneOrder' = [doneOrder EXCEPT ![r] = Append(@, fetchPromises[r][k].page)]
    /\ beyondNoSignal' = [beyondNoSignal EXCEPT
                            ![r] = @ \/ (fetchPromises[r][k].page > lastPage
                                         /\ ~IsLastPageOf(items))]
    /\ UNCHANGED <<lastPage, localStorage, pc, parallelLimit, currentPage,
                   batchIndex, i, lastInverted, failCount, lost, written, waves,
                   dispatched, committed, storageErrors, pageVars>>

FetchOk(r, k, items) ==
    ParseDocument(r, k, items) /\ UNCHANGED lastItems

\* The same step, with the document's page-link count kept for inspection.
FetchOkSeen(r, k, items) ==
    ParseDocument(r, k, items) /\ lastItems' = [lastItems EXCEPT ![r] = items]

\* The catch block rethrows when the retries are used up: fetchData is rejected.
FetchFailRethrow(r, k) ==
    /\ k \in 1..Len(fetchPromises[r])
    /\ fetchPromises[r][k].status = "fetching"
    /\ failCount[r] < MaxFails
    /\ failCount' = [failCount EXCEPT ![r] = @ + 1]
    /\ IF RetryAllowed(fetchPromises[r][k].retryCount)
       THEN /\ fetchPromises' = [fetchPromises EXCEPT
                                   ![r][k].status = "retryWait",
                                   ![r][k].fails = @ + 1]
            /\ UNCHANGED <<doneOrder, lost, pc>>
       ELSE /\ fetchPromises' = [fetchPromises EXCEPT
                                   ![r][k].status = "rejected",
                                   ![r][k].fails = @ + 1,
                                   ![r][k].failed = TRUE]
            /\ doneOrder' = [doneOrder EXCEPT
                               ![r] = Append(@, fetchPromises[r][k].page)]
            /\ lost' = [lost EXCEPT ![r] = @ \cup {fetchPromises[r][k].page}]
            /\ pc' = [pc EXCEPT ![r] = "rejected"]
    /\ UNCHANGED <<lastPage, localStorage, parallelLimit, currentPage,
                   isLastPage, batchIndex, i, lastInverted, observedEnd, written,
                   waves, beyondNoSignal, dispatched, committed, lastItems,
                   storageErrors, pageVars>>

\* A fetch fails (network error or a response that is not ok): the catch
\* block either waits 1.5 s for a retry or returns [].
FetchFail(r, k) ==
    /\ k \in 1..Len(fetchPromises[r])
    /\ fetchPromises[r][k].status = "fetching"
    /\ failCount[r] < MaxFails
    /\ failCount' = [failCount EXCEPT ![r] = @ + 1]
    /\ IF RetryAllowed(fetchPromises[r][k].retryCount)
       THEN /\ fetchPromises' = [fetchPromises EXCEPT
                                   ![r][k].status = "retryWait",
                                   ![r][k].fails = @ + 1]
            /\ UNCHANGED <<doneOrder, lost>>
       ELSE /\ fetchPromises' = [fetchPromises EXCEPT
                                   ![r][k].status = "resolved",
                                   ![r][k].fails = @ + 1,
                                   ![r][k].result = <<>>,
                                   ![r][k].failed = TRUE]
            /\ doneOrder' = [doneOrder EXCEPT
                               ![r] = Append(@, fetchPromises[r][k].page)]
            /\ lost' = [lost EXCEPT ![r] = @ \cup {fetchPromises[r][k].page}]
    /\ UNCHANGED <<lastPage, localStorage, pc, parallelLimit, currentPage,
                   isLastPage, batchIndex, i, lastInverted, observedEnd, written,
                   waves, beyondNoSignal, dispatched, committed, lastItems,
                   storageErrors, pageVars>>

\* fetchPage(currentPage++, retryCount - 1): the retry takes a new page number.
RetryFireNextPage(r, k) ==
    /\ k \in 1..Len(fetchPromises[r])
    /\ fetchPromises[r][k].status = "retryWait"
    /\ currentPage[r] <= MaxPage
    /\ fetchPromises' = [fetchPromises EXCEPT
                           ![r][k].status = "fetching",
                           ![r][k].page = currentPage[r],
                           ![r][k].retryCount = @ - 1,
                           ![r][k].attempts = @ + 1]
    /\ currentPage' = [currentPage EXCEPT ![r] = @ + 1]
    /\ UNCHANGED <<lastPage, localStorage, pc, parallelLimit,
                   isLastPage, batchIndex, i, doneOrder, lastInverted, failCount,
                   lost, observedEnd, written, waves, beyondNoSignal, dispatched,
                   committed, lastItems, storageErrors, pageVars>>

\* The 1.5 s retry timer fires: fetchPage(pageNumber, retryCount - 1).
RetryFire(r, k) ==
    /\ k \in 1..Len(fetchPromises[r])
    /\ fetchPromises[r][k].status = "retryWait"
    /\ fetchPromises' = [fetchPromises EXCEPT
                           ![r][k].status = "fetching",
                           ![r][k].retryCount = @ - 1,
                           ![r][k].attempts = @ + 1]
    /\ UNCHANGED <<lastPage, localStorage, pc, parallelLimit, currentPage,
                   isLastPage, batchIndex, i, doneOrder, lastInverted, failCount,
                   lost, observedEnd, written, waves, beyondNoSignal, dispatched,
                   committed, lastItems, storageErrors, pageVars>>

\* Promise.all resolves: the wave's batch is stored under the run's batch
\* index, the index advances, and the while condition is checked again.
Join(r) ==
    /\ pc[r] = "join"
    /\ AllSettled(fetchPromises[r])
    /\ localStorage' = SetItem(localStorage, batchIndex[r],
                                BatchData(fetchPromises[r], doneOrder[r]))
    /\ committed' = [committed EXCEPT
                       ![r] = SetItem(@, batchIndex[r],
                                      BatchData(fetchPromises[r], doneOrder[r]))]
    /\ written' = [written EXCEPT ![r] = @ \cup {batchIndex[r]}]
    /\ waves' = [waves EXCEPT ![r] = @ + 1]
    /\ batchIndex' = [batchIndex EXCEPT ![r] = NextBatchIndex(@)]
    /\ lastInverted' = [lastInverted EXCEPT ![r] = Inverted(fetchPromises[r], doneOrder[r])]
    /\ doneOrder' = [doneOrder EXCEPT ![r] = <<>>]
    /\ i' = [i EXCEPT ![r] = 0]
    /\ EnterLoop(r, parallelLimit[r], currentPage[r], isLastPage[r])
    /\ UNCHANGED <<lastPage, parallelLimit, isLastPage, failCount, lost,
                   observedEnd, beyondNoSignal, lastItems, storageErrors, pageVars>>

\* Promise.all resolves and setItem returns although nothing was stored: the
\* run goes on to batchIndex++ and the next while check.
JoinFailsSwallowed(r) ==
    /\ pc[r] = "join"
    /\ AllSettled(fetchPromises[r])
    /\ storageErrors[r] = 0
    /\ storageErrors' = [storageErrors EXCEPT ![r] = @ + 1]
    /\ batchIndex' = [batchIndex EXCEPT ![r] = NextBatchIndex(@)]
    /\ doneOrder' = [doneOrder EXCEPT ![r] = <<>>]
    /\ i' = [i EXCEPT ![r] = 0]
    /\ EnterLoop(r, parallelLimit[r], currentPage[r], isLastPage[r])
    /\ UNCHANGED <<lastPage, localStorage, parallelLimit, isLastPage, lastInverted,
                   failCount, lost, observedEnd, written, waves, beyondNoSignal,
                   committed, lastItems, pageVars>>

\* Promise.all resolves and localStorage.setItem throws (the quota is
\* exceeded): nothing is stored, the exception leaves the loop and fetchData's
\* promise is rejected; the statements after setItem are not executed.
JoinFails(r) ==
    /\ pc[r] = "join"
    /\ AllSettled(fetchPromises[r])
    /\ storageErrors[r] = 0
    /\ storageErrors' = [storageErrors EXCEPT ![r] = @ + 1]
    /\ pc' = [pc EXCEPT ![r] = "rejected"]
    /\ UNCHANGED <<lastPage, localStorage, parallelLimit, currentPage, isLastPage,
                   batchIndex, i, fetchPromises, doneOrder, lastInverted, failCount,
                   lost, observedEnd, written, waves, beyondNoSignal, dispatched,
                   committed, lastItems, pageVars>>

\* The user edits the search field.
TypeTerm(term) ==
    /\ searchField # term
    /\ searchField' = term
    /\ UNCHANGED <<runVars, localStorage, fetchedData, searched, enumerated,
                   filteredData, xlsxFile>>

\* searchData() that also keeps its result in the store.
SearchDataCaching(order) ==
    /\ order \in KeyOrders(localStorage)
    /\ searched' = searchField
    /\ enumerated' = order
    /\ filteredData' = ForEachKey(<<>>, order, localStorage, ToLowerCase(searchField))
    /\ localStorage' = SetItem(localStorage, 0, filteredData')
    /\ UNCHANGED <<runVars, fetchedData, searchField, xlsxFile>>

\* searchData(): the Search button or Enter in the search field.  The rows
\* collected are the argument of the buildTable call that ends the handler.
SearchData(order) ==
    /\ order \in KeyOrders(localStorage)
    /\ searched' = searchField
    /\ enumerated' = order
    /\ filteredData' = ForEachKey(<<>>, order, localStorage, ToLowerCase(searchField))
    /\ UNCHANGED <<runVars, localStorage, fetchedData, searchField, xlsxFile>>

\* exportToXLSX(): the Export button writes doctors_data.xlsx.
ExportToXLSX ==
    /\ xlsxFile' = [written |-> TRUE, rows |-> ExportRows(fetchedData, localStorage)]
    /\ UNCHANGED <<runVars, localStorage, fetchedData, searchField, searched,
                   enumerated, filteredData>>

\* Beyond the horizon.  Pages above MaxPage are all pages beyond the last page
\* and batch indices above MaxPage all hold such pages only; the two actions
\* below are DelayFire and Join there, with every such page number tracked as
\* MaxPage + 1 and every such batch index as MaxPage, so that a run that goes
\* on for ever is a behaviour of LiveSpec.
Saturate(n) == IF n > MaxPage THEN MaxPage ELSE n

DelayFireBeyond(r) ==
    /\ pc[r] = "launchDelay"
    /\ currentPage[r] > MaxPage
    /\ LaunchMore(i[r] + 1, parallelLimit[r], isLastPage[r])
    /\ i' = [i EXCEPT ![r] = i[r] + 1]
    /\ fetchPromises' = [fetchPromises EXCEPT
                           ![r] = Append(@, NewPromise(currentPage[r]))]
    /\ UNCHANGED <<lastPage, localStorage, pc, parallelLimit, currentPage,
                   isLastPage, batchIndex, doneOrder, lastInverted, failCount, lost,
                   observedEnd, written, waves, beyondNoSignal, dispatched,
                   committed, lastItems, storageErrors, pageVars>>

JoinBeyond(r) ==
    /\ pc[r] = "join"
    /\ currentPage[r] > MaxPage
    /\ AllSettled(fetchPromises[r])
    /\ LoopContinues(isLastPage[r])
    /\ LaunchMore(0, parallelLimit[r], isLastPage[r])
    /\ localStorage' = SetItem(localStorage, batchIndex[r],
                                BatchData(fetchPromises[r], doneOrder[r]))
    /\ committed' = [committed EXCEPT
                       ![r] = SetItem(@, batchIndex[r],
                                      BatchData(fetchPromises[r], doneOrder[r]))]
    /\ written' = [written EXCEPT ![r] = @ \cup {batchIndex[r]}]
    /\ waves' = [waves EXCEPT ![r] = Saturate(@ + 1)]
    /\ batchIndex' = [batchIndex EXCEPT ![r] = Saturate(NextBatchIndex(@))]
    /\ lastInverted' = [lastInverted EXCEPT ![r] = Inverted(fetchPromises[r], doneOrder[r])]
    /\ doneOrder' = [doneOrder EXCEPT ![r] = <<>>]
    /\ i' = [i EXCEPT ![r] = 0]
    /\ fetchPromises' = [fetchPromises EXCEPT ![r] = <<NewPromise(currentPage[r])>>]
    /\ pc' = [pc EXCEPT ![r] = "launchDelay"]
    /\ UNCHANGED <<lastPage, parallelLimit, currentPage, isLastPage, failCount,
                   lost, observedEnd, beyondNoSignal, dispatched, lastItems,
                   storageErrors, pageVars>>

Next ==
    \/ OnLoad
    \/ DelayFire(1)
    \/ \E k \in 1..DefaultParallelLimit, items \in 0..MaxItems : FetchOk(1, k, items)
    \/ \E k \in 1..DefaultParallelLimit : FetchFail(1, k)
    \/ \E k \in 1..DefaultParallelLimit : RetryFire(1, k)
    \/ Join(1)

Spec == Init /\ [][Next]_vars

\* The runs in which no fetch fails, continued beyond the horizon.  Every
\* timer fires, every fetch answers, every settled wave joins.
LiveNext ==
    \/ OnLoad
    \/ DelayFire(1)
    \/ \E k \in 1..DefaultParallelLimit, items \in 0..MaxItems : FetchOk(1, k, items)
    \/ Join(1)
    \/ DelayFireBeyond(1)
    \/ JoinBeyond(1)

Fairness ==
    /\ WF_vars(OnLoad)
    /\ WF_vars(DelayFire(1))
    /\ WF_vars(Join(1))
    /\ WF_vars(DelayFireBeyond(1))
    /\ WF_vars(JoinBeyond(1))
    /\ \A k \in 1..DefaultParallelLimit :
          WF_vars(\E items \in 0..MaxItems : FetchOk(1, k, items))

LiveSpec == Init /\ [][LiveNext]_vars /\ Fairness

\* The page in use: a crawl without failed fetches, the search field, the
\* Search button and the Export button.
PageTerms == {<<>>, <<"B">>}

PageNext ==
    \/ OnLoad
    \/ DelayFire(1)
    \/ \E k \in 1..DefaultParallelLimit, items \in 0..MaxItems : FetchOk(1, k, items)
    \/ Join(1)
    \/ \E term \in PageTerms : TypeTerm(term)
    \/ \E order \in SortedKeyOrders(localStorage) : SearchData(order)
    \/ ExportToXLSX

PageSpec == Init /\ [][PageNext]_vars

\* The crawl without failed fetches, with every parsed document's page-link
\* count kept.
ExtractNext ==
    \/ OnLoad
    \/ DelayFire(1)
    \/ \E k \in 1..DefaultParallelLimit, items \in 0..MaxItems : FetchOkSeen(1, k, items)
    \/ Join(1)

ExtractSpec == Init /\ [][ExtractNext]_vars

\* Stores a search can find: batches of earlier crawls under their indices,
\* an empty batch, and an item of another name (key -1).
SearchStores ==
    { <<>>,
      StaleStore,
      (0 :> <<>>) @@ (1 :> <<<<1, 2>>, <<1, 2>>, <<1, 1>>>>),
      (-1 :> <<<<1, 2>>>>) @@ (0 :> <<<<0, 1>>, <<1, 1>>>>) @@ (1 :> <<<<1, 2>>, <<0, 1>>>>) }

SearchInit ==
    /\ PageLoaded
    /\ localStorage \in SearchStores

\* Searching a store that no crawl is writing.
SearchNext ==
    \/ \E term \in Terms(MaxTermLen) : TypeTerm(term)
    \/ \E order \in KeyOrders(localStorage) : SearchData(order)

SearchSpec == SearchInit /\ [][SearchNext]_vars

\* The Refetch Data button is pressed while the onload run is in progress:
\* fetchData() is called again.
Refetch ==
    /\ pc[1] \in {"launchDelay", "join"}
    /\ FetchData(2, DefaultParallelLimit)

\* The onload run and a Refetch run, both without failed fetches.
RefetchNext ==
    \/ OnLoad
    \/ Refetch
    \/ \E r \in RunIds : DelayFire(r)
    \/ \E r \in RunIds, k \in 1..DefaultParallelLimit, items \in 0..MaxItems :
          FetchOk(r, k, items)
    \/ \E r \in RunIds : Join(r)

\* The store is empty when the page loads.
RefetchInit ==
    /\ PageLoaded
    /\ localStorage = <<>>

RefetchSpec == RefetchInit /\ [][RefetchNext]_vars

\* The crawl in a browser whose storage quota can be exhausted at any write.
QuotaNext ==
    \/ Next
    \/ JoinFails(1)

QuotaSpec == Init /\ [][QuotaNext]_vars

\* ------------------------------------------------------- auxiliary notions
TypeOK ==
    /\ lastPage \in 1..MaxLastPage
    /\ \A r \in RunIds :
          /\ pc[r] \in {"idle", "launchDelay", "join", "done"}
          /\ parallelLimit[r] \in 1..DefaultParallelLimit
          /\ isLastPage[r] \in BOOLEAN
          /\ Len(fetchPromises[r]) <= parallelLimit[r]

Ceil(n, d) == (n + d - 1) \div d

InFlight(r) ==
    {k \in 1..Len(fetchPromises[r]) : fetchPromises[r][k].status # "resolved"}

\* Page p was dispatched, its fetchPage has settled, and it returned a document.
FetchedOk(r, p) ==
    /\ p < currentPage[r]
    /\ p \notin lost[r]
    /\ \A k \in InFlight(r) : fetchPromises[r][k].page # p

\* The batches of run r read in batch-index order.
StoredInIndexOrder(r) ==
    Flatten([b \in 1..batchIndex[r] |-> localStorage[b - 1]])

Dataset == Flatten([p \in 1..lastPage |-> Records(p)])

\* Records of a batch are grouped by page, pages ascending.
PageOrdered(batch) ==
    \A a, b \in 1..Len(batch) : a < b =>
        \/ batch[a][1] < batch[b][1]
        \/ batch[a][1] = batch[b][1] /\ batch[a][2] < batch[b][2]

\* --------------------------------------------------------------------- C1
\* C1: with page N the only real page that signals end-of-data and no page
\* lost, the run stores exactly ceil(N / parallelLimit) wave batches and then
\* stops, whatever the order in which the fetches complete.  Stated for the
\* runs in which no document beyond page N cleared the flag.
C1_ExactWaves ==
    \A r \in RunIds :
        (pc[r] # "idle" /\ lost[r] = {} /\ ~beyondNoSignal[r]) =>
            /\ waves[r] <= Ceil(lastPage, parallelLimit[r])
            /\ (pc[r] = "done" => waves[r] = Ceil(lastPage, parallelLimit[r]))
            /\ (waves[r] = Ceil(lastPage, parallelLimit[r]) => pc[r] = "done")

\* --------------------------------------------------------------------- C2
\* C2: when no page is lost, after the run is done the stored batches read in
\* batch-index order are the records of pages 1..N in page order, each once.
C2_DatasetStored ==
    \A r \in RunIds :
        (pc[r] = "done" /\ lost[r] = {}) => StoredInIndexOrder(r) = Dataset

C2_Witness ==
    /\ pc[1] = "done" /\ lost[1] = {}
    /\ lastPage = 3 /\ parallelLimit[1] = 2 /\ batchIndex[1] >= 2
    /\ failCount[1] > 0
    /\ currentPage[1] > lastPage + 1

\* --------------------------------------------------------------------- C3
\* C3: one page gets at most 5 attempts; a fetch that fails k <= 4 times and
\* then succeeds returns the page's records after k retries and is not tried
\* again; a fetch that fails every time returns no records after 4 retries.
C3_RetryBound ==
    \A r \in RunIds : \A k \in 1..Len(fetchPromises[r]) :
        LET f == fetchPromises[r][k] IN
        /\ f.attempts <= Retries + 1
        /\ (f.status = "resolved" /\ ~f.failed) =>
              /\ f.result = Records(f.page)
              /\ f.fails <= Retries
              /\ f.attempts = f.fails + 1
        /\ (f.status = "resolved" /\ f.failed) =>
              /\ f.result = <<>>
              /\ f.fails = Retries + 1
              /\ f.attempts = Retries + 1
        /\ f.status = "retryWait" => f.attempts = f.fails /\ f.fails <= Retries
        /\ f.status = "fetching" => f.attempts = f.fails + 1

C3_Witness ==
    \E k, m \in 1..Len(fetchPromises[1]) :
        /\ fetchPromises[1][k].status = "resolved"
        /\ fetchPromises[1][k].failed
        /\ fetchPromises[1][k].attempts = 5
        /\ fetchPromises[1][m].status = "resolved"
        /\ ~fetchPromises[1][m].failed
        /\ fetchPromises[1][m].fails = 1
        /\ fetchPromises[1][m].result # <<>>

\* --------------------------------------------------------------------- C4
\* C4: a page whose retries are used up does not halt the run: the step that
\* gives the page up leaves the run's position and the end-of-data flag as
\* they were and returns no records, and the join of its wave stores the
\* other pages' records under the batch index, which advances.
C4_LostPageDoesNotHalt ==
    [][\A r \in RunIds :
          /\ lost'[r] # lost[r] =>
                /\ pc'[r] = pc[r]
                /\ isLastPage'[r] = isLastPage[r]
                /\ \A k \in 1..Len(fetchPromises'[r]) :
                      fetchPromises'[r][k].page \in lost'[r] =>
                          /\ fetchPromises'[r][k].status = "resolved"
                          /\ fetchPromises'[r][k].result = <<>>
          /\ (pc[r] = "join" /\ InFlight(r) = {} /\ pc'[r] # pc[r]) =>
                /\ pc'[r] \in {"launchDelay", "done"}
                /\ batchIndex'[r] = batchIndex[r] + 1
                /\ batchIndex[r] \in DOMAIN localStorage'
                /\ localStorage'[batchIndex[r]] =
                      Flatten([k \in 1..Len(fetchPromises[r]) |->
                                 IF fetchPromises[r][k].page \in lost[r]
                                 THEN <<>>
                                 ELSE Records(fetchPromises[r][k].page)])
          /\ pc[r] \in {"launchDelay", "join"} =>
                pc'[r] \in {"launchDelay", "join", "done"}]_vars

C4_Witness ==
    /\ lastPage >= 2
    /\ waves[1] >= 1 /\ batchIndex[1] >= 1
    /\ 1 \in lost[1]
    /\ localStorage[0] = Records(2)
    /\ pc[1] = "launchDelay"

\* --------------------------------------------------------------------- C5
\* C5: the run becomes Done only in the turn that joins a wave and stores its
\* batch, with the end-of-data flag true at the check that follows; no fetch
\* of the run is in flight then.
C5_DoneOnlyAfterJoin ==
    [][\A r \in RunIds :
          (pc[r] # "done" /\ pc'[r] = "done") =>
              /\ pc[r] = "join"
              /\ \A k \in 1..Len(fetchPromises[r]) :
                    fetchPromises[r][k].status = "resolved"
              /\ isLastPage[r]
              /\ waves'[r] = waves[r] + 1
              /\ batchIndex[r] \in DOMAIN localStorage'
              /\ InFlight(r)' = {}]_vars

C5_Witness ==
    /\ pc[1] = "done"
    /\ waves[1] >= 2
    /\ isLastPage[1]

\* --------------------------------------------------------------------- C6
\* C6 (as claimed): the flag is read only after the join, so every wave that
\* reaches the join has dispatched parallelLimit pages.
C6_FullWaves ==
    \A r \in RunIds :
        pc[r] = "join" => Len(fetchPromises[r]) = parallelLimit[r]

\* C6 (amended): the flag is read after the join and also before every launch
\* of the launch loop: a page is launched only while the flag is false, a wave
\* goes to its join with fewer than parallelLimit pages only when the flag is
\* true at the loop condition, and a launched fetch is never withdrawn.
C6_LaunchLoopReadsFlag ==
    [][\A r \in RunIds :
          pc[r] = "launchDelay" =>
              /\ Len(fetchPromises'[r]) >= Len(fetchPromises[r])
              /\ Len(fetchPromises'[r]) > Len(fetchPromises[r]) =>
                    ~isLastPage[r] /\ Len(fetchPromises[r]) < parallelLimit[r]
              /\ pc'[r] = "join" =>
                    \/ isLastPage[r]
                    \/ Len(fetchPromises[r]) = parallelLimit[r]
              /\ (pc'[r] = "launchDelay" /\ i'[r] # i[r]) =>
                    Len(fetchPromises'[r]) = Len(fetchPromises[r]) + 1]_vars

C6_Witness ==
    /\ pc[1] = "join"
    /\ Len(fetchPromises[1]) < parallelLimit[1]
    /\ currentPage[1] = lastPage + 1

\* --------------------------------------------------------------------- C7
\* C7: when page N has been fetched successfully, at most parallelLimit - 1
\* pages above N are dispatched.  Stated for the runs in which no document
\* beyond page N cleared the flag.
C7_OvershootBound ==
    \A r \in RunIds :
        (pc[r] # "idle" /\ FetchedOk(r, lastPage) /\ ~beyondNoSignal[r]) =>
            currentPage[r] - 1 - lastPage <= parallelLimit[r] - 1

\* --------------------------------------------------------------------- C8
\* C8: once a fetch of the run has read a document that signals end-of-data,
\* the run eventually is Done.
C8_ObservedLeadsToDone ==
    \A r \in RunIds : observedEnd[r] ~> (pc[r] = "done")

\* --------------------------------------------------------------------- C9
\* C9: the batch indices a run has stored are exactly 0..k-1, k the number of
\* wave batches it has stored.
C9_ContiguousIndices ==
    \A r \in RunIds :
        /\ written[r] = 0..(waves[r] - 1)
        /\ written[r] \subseteq DOMAIN localStorage
        /\ batchIndex[r] = waves[r]

C9_Witness ==
    /\ waves[1] = 3
    /\ written[1] = {0, 1, 2}

\* -------------------------------------------------------------------- C10
\* C10: in a stored batch the records of page p come before the records of
\* page q whenever p < q, also when q's fetch settled before p's.
C10_LaunchOrder ==
    \A r \in RunIds : \A b \in written[r] : PageOrdered(localStorage[b])

C10_Witness ==
    /\ batchIndex[1] >= 1
    /\ lastInverted[1]
    /\ \E a, b \in 1..Len(localStorage[batchIndex[1] - 1]) :
          localStorage[batchIndex[1] - 1][a][1] < localStorage[batchIndex[1] - 1][b][1]

\* -------------------------------------------------------------------- C11
\* The records an earlier run left in the store.
StaleRecords ==
    UNION {{StaleStore[b][j] : j \in 1..Len(StaleStore[b])} : b \in DOMAIN StaleStore}

\* C11: every batch index the run has stored holds the run's own batch and
\* nothing else, so no record of the earlier run is left under it; an index the
\* run has not stored keeps what the earlier run left there.
C11_RerunOverwrites ==
    \A b \in DOMAIN localStorage :
        IF b \in written[1]
        THEN /\ localStorage[b] = committed[1][b]
             /\ \A j \in 1..Len(localStorage[b]) : localStorage[b][j] \notin StaleRecords
        ELSE b \in DOMAIN StaleStore /\ localStorage[b] = StaleStore[b]

C11_Witness ==
    /\ pc[1] = "done"
    /\ 0 \in written[1]
    /\ localStorage[0] # <<>>
    /\ 4 \in DOMAIN localStorage
    /\ 4 \notin written[1]
    /\ localStorage[4] = StaleStore[4]

\* -------------------------------------------------------------------- C15
\* C15: once a fetch of a run has set the end-of-data flag, no later step of
\* the same run in which every document read beyond the last page showed the
\* end-of-data signal sets the flag back to false.
C15_FlagSettles ==
    [][\A r \in RunIds :
          (pc[r] # "idle" /\ isLastPage[r] /\ ~beyondNoSignal'[r]) => isLastPage'[r]]_vars

\* -------------------------------------------------------------------- C16
\* The pages of the wave in progress are the pages dispatched last.
CurrentWaveIsTail(r) ==
    /\ Len(fetchPromises[r]) <= Len(dispatched[r])
    /\ \A k \in 1..Len(fetchPromises[r]) :
          fetchPromises[r][k].page =
              dispatched[r][Len(dispatched[r]) - Len(fetchPromises[r]) + k]

\* C16: a run never has more than parallelLimit fetches in flight, and all of
\* them are of the wave in progress; the first page of the next wave is
\* dispatched only in the step that finds every fetch of the wave resolved and
\* stores the wave's batch, and a later page of a wave joins the wave in
\* progress.
C16_SequentialWaves ==
    [][\A r \in RunIds :
          /\ Len(fetchPromises'[r]) <= parallelLimit'[r]
          /\ Cardinality(InFlight(r))' <= parallelLimit'[r]
          /\ CurrentWaveIsTail(r)'
          /\ (dispatched'[r] # dispatched[r] /\ Len(fetchPromises'[r]) = 1 /\ pc[r] # "idle")
                => /\ \A k \in 1..Len(fetchPromises[r]) :
                         fetchPromises[r][k].status = "resolved"
                   /\ waves'[r] = waves[r] + 1
                   /\ batchIndex[r] \in written'[r]
          /\ (dispatched'[r] # dispatched[r] /\ Len(fetchPromises'[r]) > 1)
                => /\ SubSeq(fetchPromises'[r], 1, Len(fetchPromises[r])) = fetchPromises[r]
                   /\ waves'[r] = waves[r]]_vars

C16_Witness ==
    /\ waves[1] >= 1
    /\ parallelLimit[1] = 2
    /\ Cardinality(InFlight(1)) = 2
    /\ failCount[1] >= 1
    /\ \E k \in InFlight(1) : fetchPromises[1][k].attempts > 1

\* -------------------------------------------------------------------- C19
\* C19: the pages a run has dispatched are 1, 2, ..., currentPage - 1 in this
\* order, and every fetch of the wave in progress, retried or not, requests the
\* page it was dispatched with.
C19_PagesInSequence ==
    \A r \in RunIds :
        /\ dispatched[r] = [j \in 1..(currentPage[r] - 1) |-> j]
        /\ CurrentWaveIsTail(r)

C19_Witness ==
    /\ dispatched[1] = <<1, 2, 3, 4>>
    /\ \E k \in 1..Len(fetchPromises[1]) :
          /\ fetchPromises[1][k].attempts > 1
          /\ fetchPromises[1][k].page = 3

\* -------------------------------------------------------------------- C18
\* C18: the step in which a wave's setItem throws stores nothing, leaves every
\* stored batch and the run's batch index as they were and ends the run as
\* rejected; a rejected run never dispatches, stores or advances its index.
C18_WriteFailureAborts ==
    [][\A r \in RunIds :
          /\ storageErrors'[r] # storageErrors[r]
                => /\ localStorage' = localStorage
                   /\ batchIndex'[r] = batchIndex[r]
                   /\ batchIndex[r] \notin written'[r]
                   /\ pc'[r] = "rejected"
          /\ (storageErrors[r] > 0 /\ pc[r] # "idle")
                => /\ pc'[r] = pc[r]
                   /\ batchIndex'[r] = batchIndex[r]
                   /\ written'[r] = written[r]
                   /\ dispatched'[r] = dispatched[r]
                   /\ localStorage' = localStorage]_vars

C18_Witness ==
    /\ pc[1] = "rejected"
    /\ storageErrors[1] = 1
    /\ written[1] = {0}
    /\ batchIndex[1] = 1
    /\ localStorage[0] = Records(1) \o Records(2)
    /\ 1 \notin DOMAIN localStorage
    /\ fetchPromises[1] # <<>>

\* -------------------------------------------------------------------- C13
\* C13: a step that changes the search field, the search result, the key
\* enumeration or the exported file changes neither the store nor anything of
\* a crawl run; and the store changes only in a step in which a run stores its
\* wave's batch under its batch index, every other key keeping its value.
C13_SearchExportKeepStore ==
    [][/\ (\/ searchField' # searchField
           \/ filteredData' # filteredData
           \/ searched' # searched
           \/ enumerated' # enumerated
           \/ xlsxFile' # xlsxFile)
          => /\ localStorage' = localStorage
             /\ runVars' = runVars
       /\ (localStorage' # localStorage)
          => \E r \in RunIds :
                /\ waves'[r] = waves[r] + 1
                /\ DOMAIN localStorage' = (DOMAIN localStorage) \cup {batchIndex[r]}
                /\ \A k \in DOMAIN localStorage' :
                      localStorage'[k] = IF k = batchIndex[r]
                                         THEN committed'[r][k]
                                         ELSE localStorage[k]]_vars

C13_Witness ==
    /\ pc[1] = "launchDelay"
    /\ waves[1] >= 1
    /\ xlsxFile.written
    /\ filteredData # <<>>
    /\ enumerated # <<>>
    /\ Len(enumerated) < Cardinality(DOMAIN localStorage)

\* -------------------------------------------------------------------- C14
\* C14: after a run has parsed a document, its end-of-data flag is true
\* exactly when the document parsed last had at most PaginationThreshold
\* page-link items.
C14_SignalIsItemCount ==
    \A r \in RunIds :
        lastItems[r] # -1 =>
            /\ lastItems[r] <= PaginationThreshold => isLastPage[r]
            /\ lastItems[r] > PaginationThreshold => ~isLastPage[r]

C14_Witness ==
    /\ lastItems[1] = PaginationThreshold
    /\ isLastPage[1]
    /\ \E k \in 1..Len(fetchPromises[1]) : fetchPromises[1][k].result # <<>>

EnumeratedRows ==
    Flatten([n \in 1..Len(enumerated) |->
                IF enumerated[n] >= 0 THEN localStorage[enumerated[n]] ELSE <<>>])

FieldText(f) == IF f = Null THEN <<>> ELSE f

\* The six fields joined with single spaces and lower-cased contain the
\* lower-cased value read from the search field.
ContainsSearched(rec) ==
    LET f == Fields(rec)
        text == ToLowerCase(FieldText(f[1]) \o <<" ">> \o FieldText(f[2]) \o <<" ">> \o
                            FieldText(f[3]) \o <<" ">> \o FieldText(f[4]) \o <<" ">> \o
                            FieldText(f[5]) \o <<" ">> \o FieldText(f[6]))
        term == ToLowerCase(searched)
    IN  \E a \in 0..(Len(text) - Len(term)) :
            \A j \in 1..Len(term) : text[a + j] = term[j]

C20_RunsKeepApart ==
    [][/\ \A r, q \in RunIds :
             (r # q /\ (pc'[r] # pc[r] \/ fetchPromises'[r] # fetchPromises[r]))
                => /\ currentPage'[q] = currentPage[q]
                   /\ isLastPage'[q] = isLastPage[q]
                   /\ batchIndex'[q] = batchIndex[q]
       /\ \A key \in DOMAIN localStorage' :
             (\E r \in RunIds : key \in written'[r])
                => \E r \in RunIds :
                      /\ key \in written'[r]
                      /\ localStorage'[key] = committed'[r][key]]_vars

C20_Witness ==
    /\ pc[1] = "launchDelay"
    /\ pc[2] = "launchDelay"
    /\ currentPage[1] # currentPage[2]
    /\ isLastPage[1] # isLastPage[2]
    /\ batchIndex[1] > batchIndex[2]
    /\ 0 \in written[1] \cap written[2]
    /\ committed[1][0] # committed[2][0]
    /\ localStorage[0] = committed[2][0]
====
